---- MODULE Spec2Model ----
(***************************************************************************)
(* Model of the PDF conversion handlers of src/app/api/convert/route.ts:   *)
(* the PPTX route (POST, extractTextFromPDF, createPptxFromText) and the   *)
(* DOCX route (POST, extractTextFromPDF) and the upload component.         *)
(* Strings are sequences of                                                *)
(* one-character strings; lengths are in tenths of an inch.                *)
(***************************************************************************)
EXTENDS Integers, Sequences, FiniteSets, TLC

VARIABLES req, pc, stages, extracted, thrown, paragraphs, idx, slides, slide,
          yPosition, doc, response, lineIdx, currentTable, consecutive, tables,
          tableIdx, ui

vars == <<req, pc, stages, extracted, thrown, paragraphs, idx, slides, slide,
          yPosition, doc, response, lineIdx, currentTable, consecutive, tables,
          tableIdx, ui>>

layoutVars == <<paragraphs, idx, slides, slide, yPosition>>
tableVars == <<lineIdx, currentTable, consecutive, tables, tableIdx>>

----------------------------------------------------------------------------
(* Bounds of the model *)

MaxLen == 5
MaxParas == 15
MaxLines == 4
MaxConversions == 2

(* Program constants *)

TopMargin == 5
lineHeight == 5
PageBudget == 70
FallbackNoteY == 10
MaxUploadMiB == 10

MaxUpload == MaxUploadMiB * 1024 * 1024

----------------------------------------------------------------------------
(* Strings *)

NL == "\n"
SP == " "
Alphabet == {"a", SP, NL}

IsWs(c) == c \in {SP, NL}

RECURSIVE TrimStart(_)
TrimStart(s) ==
  IF s # <<>> /\ IsWs(Head(s)) THEN TrimStart(Tail(s)) ELSE s

RECURSIVE TrimEnd(_)
TrimEnd(s) ==
  IF s # <<>> /\ IsWs(s[Len(s)]) THEN TrimEnd(SubSeq(s, 1, Len(s) - 1)) ELSE s

\* String.prototype.trim
Trim(s) == TrimEnd(TrimStart(s))

\* String.prototype.split(sep) for a separator of n newlines (n = 1 or 2):
\* left to right, non-overlapping; always yields at least one piece.
RECURSIVE SplitNL(_, _, _)
SplitNL(s, n, cur) ==
  IF s = <<>> THEN <<cur>>
  ELSE IF Len(s) >= n /\ \A k \in 1..n : s[k] = NL
       THEN <<cur>> \o SplitNL(SubSeq(s, n + 1, Len(s)), n, <<>>)
       ELSE SplitNL(Tail(s), n, Append(cur, Head(s)))

MapTrim(ss) == [k \in 1..Len(ss) |-> Trim(ss[k])]

NonEmpty(p) == Len(p) > 0

\* text.split('\n\n').map(p => p.trim()).filter(p => p.length > 0)
SplitParagraphs(text) == SelectSeq(MapTrim(SplitNL(text, 2, <<>>)), NonEmpty)

\* extractedText.split('\n').filter(line => line.trim().length > 0)
\*              .map(line => line.trim())
SplitDocxLines(text) == SelectSeq(MapTrim(SplitNL(text, 1, <<>>)), NonEmpty)

----------------------------------------------------------------------------
(* Fixed messages of the source *)

FallbackNote == <<"No extractable text found in this PDF.">>
DocxFallbackNote == <<"No readable text found in the PDF file.">>
DocxPlaceholder ==
  <<"Could not extract text from this PDF file. The file might be image-based or require OCR processing.">>
PptxExtractError ==
  "Could not extract text from PDF. The file may be corrupted or password-protected."
DocxEmptyError ==
  "Could not extract text from PDF. The file might be image-based or corrupted."
SerializeError == "serializer failed"
FormDataError == "formData failed"

----------------------------------------------------------------------------
(* Inputs *)

PageBreakSentinel ==
  <<"-", "-", "-", " ", "P", "a", "g", "e", " ", "B", "r", "e", "a", "k",
    " ", "-", "-", "-">>
HelloWorld == <<"H", "e", "l", "l", "o", " ", "w", "o", "r", "l", "d">>
SecondPageText ==
  <<"S", "e", "c", "o", "n", "d", " ", "p", "a", "g", "e", " ", "t", "e", "x", "t">>
ScenarioA ==
  HelloWorld \o <<NL, NL>> \o PageBreakSentinel \o <<NL, NL>> \o SecondPageText

RECURSIVE ManyParas(_)
ManyParas(n) ==
  IF n = 1 THEN <<"a">> ELSE <<"a", NL, NL>> \o ManyParas(n - 1)

ShortTexts == UNION {[1..n -> Alphabet] : n \in 0..MaxLen}
Texts == ShortTexts \cup {ManyParas(n) : n \in 1..MaxParas} \cup {ScenarioA}

ParserOutcomes ==
  {[kind |-> "throws", text |-> <<>>], [kind |-> "undefined", text |-> <<>>]}
    \cup {[kind |-> "text", text |-> t] : t \in Texts}

NoFile == [present |-> FALSE, type |-> "", size |-> 0]
Files ==
  {NoFile} \cup
  {[present |-> TRUE, type |-> t, size |-> s] :
     t \in {"application/pdf", "text/plain"},
     s \in {1, MaxUpload, MaxUpload + 1}}

Routes == {"pptx", "docx"}

Requests ==
  [route : Routes, formOK : BOOLEAN, file : Files, parser : ParserOutcomes,
   serializeOK : BOOLEAN]

----------------------------------------------------------------------------
(* Responses *)

NoResponse == [status |-> 0, body |-> "none", error |-> "", details |-> ""]

\* NextResponse.json({ error, details }, { status })
JsonError(status, error, details) ==
  [status |-> status, body |-> "none", error |-> error, details |-> details]

\* new NextResponse(buffer, { status: 200, headers })
FileResponse ==
  [status |-> 200, body |-> "file", error |-> "", details |-> ""]

NoExtract == [kind |-> "none", text |-> <<>>]

----------------------------------------------------------------------------
(* State of the upload component PremiumDocumentConverter *)

NoUrl == ""
NoSelection == "null"
SelectableFiles == {"a.pdf", "b.pdf"}

\* useState initial values; timer is the pending setTimeout of handleConvert,
\* interval the setInterval of the progress effect.
UiInit ==
  [file |-> NoSelection, converting |-> FALSE, downloadUrl |-> NoUrl,
   error |-> "", dragActive |-> FALSE, conversionProgress |-> 0,
   timer |-> "none", interval |-> FALSE, conversions |-> 0]

----------------------------------------------------------------------------
(* The request handlers *)

Init ==
  /\ req \in Requests
  /\ pc = "start"
  /\ stages = <<>>
  /\ extracted = NoExtract
  /\ thrown = ""
  /\ paragraphs = <<>>
  /\ idx = 0
  /\ slides = <<>>
  /\ slide = 0
  /\ yPosition = 0
  /\ doc = <<>>
  /\ response = NoResponse
  /\ lineIdx = 0
  /\ currentTable = <<>>
  /\ consecutive = 0
  /\ tables = <<>>
  /\ tableIdx = 0
  /\ ui = UiInit

\* file.size > 10 * 1024 * 1024, checked by the PPTX route only
SizeRejected(route, file) == route = "pptx" /\ file.size > MaxUpload

\* POST, up to the call of extractTextFromPDF: formData, the checks of the
\* file and the early 400 returns.
Validate ==
  /\ pc = "start"
  /\ UNCHANGED <<ui, req, stages, extracted, layoutVars, doc, tableVars>>
  /\ IF ~req.formOK
       THEN /\ thrown' = FormDataError
            /\ pc' = "catch"
            /\ UNCHANGED response
       ELSE /\ UNCHANGED thrown
            /\ IF ~req.file.present
                 THEN /\ response' = JsonError(400, "No file provided", "")
                      /\ pc' = "done"
                 ELSE IF req.file.type # "application/pdf"
                 THEN /\ response' = JsonError(400, "Only PDF files are supported", "")
                      /\ pc' = "done"
                 ELSE IF SizeRejected(req.route, req.file)
                 THEN /\ response' = JsonError(400, "File size must be less than 10MB", "")
                      /\ pc' = "done"
                 ELSE /\ UNCHANGED response
                      /\ pc' = "extract"

\* extractTextFromPDF of the PPTX route: one call of pdf-parse; the catch
\* block rethrows.
ExtractPptxResult(parser) ==
  CASE parser.kind = "text" -> [kind |-> "text", text |-> parser.text]
    [] parser.kind = "undefined" -> [kind |-> "text", text |-> <<>>]
    [] OTHER -> [kind |-> "raised", text |-> <<>>]

\* extractTextFromPDF of the DOCX route: one call of pdf-parse; the catch
\* block returns the placeholder text.  data.text.length is read before the
\* return, so an undefined text throws into the catch block as well.
ExtractDocxResult(parser) ==
  CASE parser.kind = "text" -> [kind |-> "text", text |-> parser.text]
    [] OTHER -> [kind |-> "placeholder", text |-> DocxPlaceholder]

ExtractPptx ==
  /\ pc = "extract"
  /\ req.route = "pptx"
  /\ stages' = Append(stages, "pdf-parse")
  /\ extracted' = ExtractPptxResult(req.parser)
  /\ IF extracted'.kind = "raised"
       THEN thrown' = PptxExtractError /\ pc' = "catch"
       ELSE UNCHANGED thrown /\ pc' = "layout"
  /\ UNCHANGED <<ui, req, layoutVars, doc, response, tableVars>>

ExtractDocx ==
  /\ pc = "extract"
  /\ req.route = "docx"
  /\ extracted' = ExtractDocxResult(req.parser)
  /\ stages' = IF extracted'.kind = "placeholder"
                 THEN stages \o <<"pdf-parse", "placeholder">>
                 ELSE Append(stages, "pdf-parse")
  /\ pc' = "build"
  /\ UNCHANGED <<ui, req, thrown, layoutVars, doc, response, tableVars>>

\* createPptxFromText, up to the loop: the paragraphs, the first slide and
\* the cursor.
NewTextBlock(content, y) == [kind |-> "text", content |-> content, y |-> y]

CreatePptxStart ==
  /\ pc = "layout"
  /\ paragraphs' = SplitParagraphs(extracted.text)
  /\ slides' = <<<<>>>>
  /\ slide' = 1
  /\ yPosition' = TopMargin
  /\ idx' = 1
  /\ pc' = "loop"
  /\ UNCHANGED <<ui, req, stages, extracted, thrown, doc, response, tableVars>>

\* The cursor advanced by the formula (sizePt / 12) * 0.5 + 0.2 at 12 pt.
AdvanceByFormat(y) == y + ((12 * 5) \div 12 + 2)

\* yPosition += lineHeight
Advance(y) == y + lineHeight

\* The overflow check one line height too late.
OverflowsLate(y) == y > PageBudget + lineHeight

\* The overflow check with >= in place of >.
OverflowsEarly(y) == y >= PageBudget

\* if (yPosition > 7)
Overflows(y) == y > PageBudget

\* A loop body that tests the overflow before placing and then skips the
\* paragraph.
PlaceParagraphOrSkip ==
  /\ pc = "loop"
  /\ idx <= Len(paragraphs)
  /\ IF Overflows(Advance(yPosition))
       THEN /\ slides' = Append(slides, <<>>)
            /\ slide' = Len(slides) + 1
            /\ yPosition' = TopMargin
       ELSE /\ slides' = [slides EXCEPT ![slide] =
                           Append(@, NewTextBlock(paragraphs[idx], yPosition))]
            /\ slide' = slide
            /\ yPosition' = Advance(yPosition)
  /\ idx' = idx + 1
  /\ UNCHANGED <<ui, req, pc, stages, extracted, thrown, paragraphs, doc, response,
                 tableVars>>

\* One iteration of the loop over the paragraphs: addText on the current
\* slide, advance the cursor, then the overflow check.
PlaceParagraph ==
  /\ pc = "loop"
  /\ idx <= Len(paragraphs)
  /\ LET placed == [slides EXCEPT ![slide] =
                      Append(@, NewTextBlock(paragraphs[idx], yPosition))]
         y == Advance(yPosition)
     IN IF Overflows(y)
          THEN /\ slides' = Append(placed, <<>>)
               /\ slide' = Len(placed) + 1
               /\ yPosition' = TopMargin
          ELSE /\ slides' = placed
               /\ slide' = slide
               /\ yPosition' = y
  /\ idx' = idx + 1
  /\ UNCHANGED <<ui, req, pc, stages, extracted, thrown, paragraphs, doc, response,
                 tableVars>>

\* After the loop: the fallback note on a slide of its own when there were
\* no paragraphs.
WithFallbackNote(ss, paras) ==
  IF Len(paras) = 0
    THEN Append(ss, <<NewTextBlock(FallbackNote, FallbackNoteY)>>)
    ELSE ss

CreatePptxFinish ==
  /\ pc = "loop"
  /\ idx > Len(paragraphs)
  /\ slides' = WithFallbackNote(slides, paragraphs)
  /\ pc' = "serialize"
  /\ UNCHANGED <<ui, req, stages, extracted, thrown, paragraphs, idx, slide,
                 yPosition, doc, response, tableVars>>

\* if (!extractedText || extractedText.trim().length === 0)
NoTextExtracted(text) == Len(Trim(text)) = 0

\* children: paragraphs.length > 0 ? paragraphs : [fallback paragraph]
DocxChildren(text) ==
  IF Len(SplitDocxLines(text)) > 0 THEN SplitDocxLines(text)
                                    ELSE <<DocxFallbackNote>>

\* POST of the DOCX route between extraction and Packer.toBuffer.
BuildDocx ==
  /\ pc = "build"
  /\ IF NoTextExtracted(extracted.text)
       THEN /\ response' = JsonError(500, DocxEmptyError, "")
            /\ pc' = "done"
            /\ UNCHANGED doc
       ELSE /\ doc' = DocxChildren(extracted.text)
            /\ pc' = "serialize"
            /\ UNCHANGED response
  /\ UNCHANGED <<ui, req, stages, extracted, thrown, layoutVars, tableVars>>

\* pptx.stream() / Packer.toBuffer(doc), then the 200 response.
SerializeOutcome(ok) ==
  IF ok THEN [pc |-> "done", response |-> FileResponse, thrown |-> ""]
        ELSE [pc |-> "catch", response |-> NoResponse, thrown |-> SerializeError]

Serialize ==
  /\ pc = "serialize"
  /\ LET out == SerializeOutcome(req.serializeOK)
     IN /\ pc' = out.pc
        /\ response' = out.response
        /\ thrown' = out.thrown
  /\ UNCHANGED <<ui, req, stages, extracted, layoutVars, doc, tableVars>>

\* A handler whose catch block returns nothing.
CatchResponseSwallowed(route, message) == NoResponse

\* The catch block of POST.
CatchResponse(route, message) ==
  JsonError(500,
            IF route = "pptx" THEN "Internal server error"
                              ELSE "Internal server error during conversion",
            message)

HandlerCatch ==
  /\ pc = "catch"
  /\ response' = CatchResponse(req.route, thrown)
  /\ pc' = "done"
  /\ UNCHANGED <<ui, req, stages, extracted, thrown, layoutVars, doc, tableVars>>

Next ==
  \/ Validate
  \/ ExtractPptx
  \/ ExtractDocx
  \/ CreatePptxStart
  \/ PlaceParagraph
  \/ CreatePptxFinish
  \/ BuildDocx
  \/ Serialize
  \/ HandlerCatch

Spec == Init /\ [][Next]_vars

----------------------------------------------------------------------------
(* Table detection and table layout (sections 4.4 and 4.5 of the           *)
(* specification), in front of and behind the text layout of               *)
(* createPptxFromText.                                                     *)

\* Split a line at every run of two or more whitespace characters.
RECURSIVE SplitWords(_, _)
SplitWords(s, cur) ==
  IF s = <<>> THEN <<cur>>
  ELSE IF Len(s) >= 2 /\ IsWs(s[1]) /\ IsWs(s[2])
       THEN <<cur>> \o SplitWords(TrimStart(s), <<>>)
       ELSE SplitWords(Tail(s), Append(cur, Head(s)))

Words(line) == SplitWords(line, <<>>)

\* A table-row candidate: at least two segments, all non-empty after trimming.
MinCells == 2
MinRows == 2

IsCandidate(line) ==
  /\ Len(Words(line)) >= MinCells
  /\ \A k \in 1..Len(Words(line)) : Len(Trim(Words(line)[k])) > 0

TextLines(text) == SplitNL(text, 1, <<>>)

\* A commit rule that accepts a run of one row.
CommitsSingleRow(run, count) == Len(run) >= 1 /\ count >= 1

\* The run is committed when it has at least two rows and the counter of
\* consecutive candidate lines is at least two.
Commits(run, count) == Len(run) >= MinRows /\ count >= MinRows

Committed(ts, run, count) == IF Commits(run, count) THEN Append(ts, run) ELSE ts

RECURSIVE JoinLines(_)
JoinLines(ls) ==
  IF Len(ls) = 0 THEN <<>>
  ELSE IF Len(ls) = 1 THEN ls[1]
  ELSE ls[1] \o <<NL>> \o JoinLines(Tail(ls))

LineSet ==
  {<<>>, <<"a", SP, "a">>, <<"a", SP, SP, "a">>, <<SP, "a", SP, SP, "a">>,
   <<SP, SP, "a">>, <<"a", SP, SP, "a", SP, SP, SP, "a", SP, "a">>}

NameAge == <<"N", "a", "m", "e", SP, SP, SP, SP, "A", "g", "e">>
Alice30 == <<"A", "l", "i", "c", "e", SP, SP, SP, SP, "3", "0">>
Bob25 == <<"B", "o", "b", SP, SP, SP, SP, "2", "5">>
Prose == <<"n", "o", "r", "m", "a", "l", SP, "p", "r", "o", "s", "e", SP,
           "l", "i", "n", "e">>
ScenarioB == JoinLines(<<NameAge, Alice30, Bob25, Prose>>)

TableTexts ==
  {JoinLines(ls) : ls \in UNION {[1..n -> LineSet] : n \in 0..MaxLines}}
    \cup {ScenarioB}

InitTables ==
  /\ req \in [route : {"pptx"}, formOK : {TRUE},
              file : {[present |-> TRUE, type |-> "application/pdf", size |-> 1]},
              parser : {[kind |-> "text", text |-> t] : t \in TableTexts},
              serializeOK : {TRUE}]
  /\ pc = "detect"
  /\ stages = <<"pdf-parse">>
  /\ extracted = [kind |-> "text", text |-> req.parser.text]
  /\ thrown = ""
  /\ paragraphs = <<>>
  /\ idx = 0
  /\ slides = <<>>
  /\ slide = 0
  /\ yPosition = 0
  /\ doc = <<>>
  /\ response = NoResponse
  /\ lineIdx = 1
  /\ currentTable = <<>>
  /\ consecutive = 0
  /\ tables = <<>>
  /\ tableIdx = 0
  /\ ui = UiInit

\* One line of the single pass over the lines.
ScanLine ==
  /\ pc = "detect"
  /\ lineIdx <= Len(TextLines(extracted.text))
  /\ LET line == TextLines(extracted.text)[lineIdx]
     IN IF IsCandidate(line)
          THEN /\ currentTable' = Append(currentTable, Words(line))
               /\ consecutive' = consecutive + 1
               /\ UNCHANGED tables
          ELSE /\ tables' = Committed(tables, currentTable, consecutive)
               /\ currentTable' = <<>>
               /\ consecutive' = 0
  /\ lineIdx' = lineIdx + 1
  /\ UNCHANGED <<ui, req, pc, stages, extracted, thrown, layoutVars, doc, response,
                 tableIdx>>

\* End of input: the last run is committed or discarded.
ScanEnd ==
  /\ pc = "detect"
  /\ lineIdx > Len(TextLines(extracted.text))
  /\ tables' = Committed(tables, currentTable, consecutive)
  /\ currentTable' = <<>>
  /\ consecutive' = 0
  /\ tableIdx' = 1
  /\ pc' = "layout"
  /\ UNCHANGED <<ui, req, stages, extracted, thrown, layoutVars, doc, response,
                 lineIdx>>

NewTableBlock(table, y) == [kind |-> "table", content |-> table, y |-> y]

\* The table put on the current page instead of a new one.
WithTableOnCurrentPage(ss, cur, table) ==
  [ss EXCEPT ![cur] = Append(@, NewTableBlock(table, TopMargin))]

\* Each table goes to a new page of its own, at the top margin.
WithTablePage(ss, cur, table) == Append(ss, <<NewTableBlock(table, TopMargin)>>)

PlaceTable ==
  /\ pc = "loop"
  /\ idx > Len(paragraphs)
  /\ tableIdx <= Len(tables)
  /\ slides' = WithTablePage(slides, slide, tables[tableIdx])
  /\ slide' = Len(slides')
  /\ tableIdx' = tableIdx + 1
  /\ UNCHANGED <<ui, req, pc, stages, extracted, thrown, paragraphs, idx, yPosition,
                 doc, response, lineIdx, currentTable, consecutive, tables>>

\* Empty-input policy, once the text blocks and the tables are placed.
FinishTables ==
  /\ pc = "loop"
  /\ idx > Len(paragraphs)
  /\ tableIdx > Len(tables)
  /\ slides' = IF Len(tables) = 0 THEN WithFallbackNote(slides, paragraphs)
                                  ELSE slides
  /\ pc' = "laid"
  /\ UNCHANGED <<ui, req, stages, extracted, thrown, paragraphs, idx, slide,
                 yPosition, doc, response, tableVars>>

NextTables ==
  \/ ScanLine
  \/ ScanEnd
  \/ CreatePptxStart
  \/ PlaceParagraph
  \/ PlaceTable
  \/ FinishTables

SpecTables == InitTables /\ [][NextTables]_vars

----------------------------------------------------------------------------
(* Claims *)

ExtractionOver == stages # <<>>
LayoutOver == slides # <<>> /\ pc \in {"serialize", "catch", "done", "laid"}
PageContents(page) == [k \in 1..Len(page) |-> page[k].content]

\* C1: the extraction step never raises to its caller: once it is over it
\* has returned one content value (real text or the placeholder) and the
\* handler has observed no exception from it.
C1_ExtractionNeverRaises ==
  ExtractionOver =>
    /\ extracted.kind \in {"text", "placeholder"}
    /\ thrown # PptxExtractError

\* C2: the stages are attempted in the order of the chain, each at most
\* once, a later one only after the earlier ones failed, and when every
\* parsing stage has failed the result is the non-empty placeholder content.
StageChain == <<"pdf-parse", "placeholder">>

C2_StagesInOrderThenPlaceholder ==
  /\ Len(stages) <= Len(StageChain)
  /\ stages = SubSeq(StageChain, 1, Len(stages))
  /\ Len(stages) > 1 => req.parser.kind # "text"
  /\ (ExtractionOver /\ req.parser.kind = "throws") =>
       /\ extracted.kind = "placeholder"
       /\ Len(extracted.text) > 0

\* C3: every request ends in exactly one of two outcomes, a status-200
\* response carrying the complete output file or a single JSON error with a
\* message; nothing is answered before the end, and never a partial file or
\* a file together with an error.
IsFileResponse(r) ==
  r.status = 200 /\ r.body = "file" /\ r.error = "" /\ r.details = ""
IsErrorResponse(r) ==
  r.status \in {400, 500} /\ r.body = "none" /\ r.error # ""

C3_FileOrSingleError ==
  /\ pc = "done" => (IsFileResponse(response) # IsErrorResponse(response))
  /\ pc # "done" => response = NoResponse

C3_Witness ==
  /\ pc = "done"
  /\ thrown = SerializeError
  /\ IsErrorResponse(response)
  /\ (slides # <<>> \/ doc # <<>>)

\* C4: a failure of extraction (the parser throws, or no text is extracted)
\* is never answered with an error: unless serialization fails, the request
\* still produces the output file.
ExtractionFailed ==
  /\ ExtractionOver
  /\ \/ req.parser.kind = "throws"
     \/ extracted.kind = "text" /\ NoTextExtracted(extracted.text)

C4_ExtractionFailureStillYieldsFile ==
  (pc = "done" /\ ExtractionFailed /\ req.serializeOK) =>
    IsFileResponse(response)

\* C5: when the text yields no paragraphs, layout emits exactly one page,
\* holding exactly one block, the fallback notice.
C5_EmptyTextOnePageOneNotice ==
  (LayoutOver /\ Len(paragraphs) = 0 /\ Len(tables) = 0) =>
    /\ Len(slides) = 1
    /\ PageContents(slides[1]) = <<FallbackNote>>

\* C6: a paragraph equal to the page-break sentinel starts a new page and is
\* not rendered as a text block; the text of scenario A lays out as two
\* pages, "Hello world" alone on the first and "Second page text" alone on
\* the second.
C6_SentinelStartsNewPage ==
  /\ \A p \in 1..Len(slides) : \A k \in 1..Len(slides[p]) :
       slides[p][k].content # PageBreakSentinel
  /\ (LayoutOver /\ extracted.text = ScenarioA) =>
       /\ Len(slides) = 2
       /\ PageContents(slides[1]) = <<HelloWorld>>
       /\ PageContents(slides[2]) = <<SecondPageText>>

\* C7: on every page no block is placed at a cursor position that already
\* exceeds the page-height budget, and the only block whose vertical extent
\* reaches past the budget is the last block of its page.
C7_BlocksWithinBudget ==
  \A p \in 1..Len(slides) : \A k \in 1..Len(slides[p]) :
    /\ slides[p][k].y <= PageBudget
    /\ slides[p][k].y + lineHeight > PageBudget => k = Len(slides[p])

C7_Witness ==
  /\ Len(slides) >= 2
  /\ Len(slides[1]) >= 2
  /\ slides[1][Len(slides[1])].y + lineHeight > PageBudget
  /\ Len(slides[2]) >= 1

\* C8: for non-empty extracted content layout produces at least one page,
\* and every detected table is placed, in order, on a page of its own that
\* holds no text block.
IsTablePage(page) == \E k \in 1..Len(page) : page[k].kind = "table"
TablePages == SelectSeq(slides, IsTablePage)

C8_TablesOnDedicatedPages ==
  /\ \A p \in 1..Len(slides) :
       IsTablePage(slides[p]) =>
         /\ Len(slides[p]) = 1
         /\ \A k \in 1..Len(slides[p]) : slides[p][k].kind # "text"
  /\ pc = "laid" =>
       /\ Len(extracted.text) > 0 => Len(slides) >= 1
       /\ Len(TablePages) = Len(tables)
       /\ \A t \in 1..Len(tables) : PageContents(TablePages[t]) = <<tables[t]>>

C8_Witness ==
  /\ pc = "laid"
  /\ Len(tables) >= 1
  /\ \E p \in 1..Len(slides) :
       Len(slides[p]) >= 1 /\ slides[p][1].kind = "text"

\* C9: every committed table has at least 2 rows, every row at least 2
\* cells, every cell is non-empty after trimming; the committed tables are
\* exactly the maximal runs of at least 2 consecutive candidate lines, so an
\* isolated candidate line yields no table and no other line enters a table;
\* scenario B yields one table of 3 rows of 2 cells.
CandidateRuns(lines) ==
  {r \in (1..Len(lines)) \X (1..Len(lines)) :
     /\ r[1] < r[2]
     /\ \A i \in r[1]..r[2] : IsCandidate(lines[i])
     /\ r[1] > 1 => ~IsCandidate(lines[r[1] - 1])
     /\ r[2] < Len(lines) => ~IsCandidate(lines[r[2] + 1])}

RowsOf(lines, r) == [m \in 1..(r[2] - r[1] + 1) |-> Words(lines[r[1] + m - 1])]

\* The runs in the order of their first line.
ExpectedTables(lines) ==
  LET R == CandidateRuns(lines)
      nth(k) == CHOOSE r \in R : Cardinality({q \in R : q[1] < r[1]}) = k - 1
  IN [k \in 1..Cardinality(R) |-> RowsOf(lines, nth(k))]

C9_CommittedTablesWellFormed ==
  /\ \A t \in 1..Len(tables) :
       /\ Len(tables[t]) >= 2
       /\ \A r \in 1..Len(tables[t]) :
            /\ Len(tables[t][r]) >= 2
            /\ \A c \in 1..Len(tables[t][r]) : Len(Trim(tables[t][r][c])) > 0
  /\ pc # "detect" => tables = ExpectedTables(TextLines(extracted.text))
  /\ (pc # "detect" /\ extracted.text = ScenarioB) =>
       /\ Len(tables) = 1
       /\ Len(tables[1]) = 3
       /\ \A r \in 1..3 : Len(tables[1][r]) = 2
       /\ tables[1][1] = Words(NameAge)

IsolatedCandidate(lines, i) ==
  /\ IsCandidate(lines[i])
  /\ i > 1 => ~IsCandidate(lines[i - 1])
  /\ i < Len(lines) => ~IsCandidate(lines[i + 1])

C9_Witness ==
  /\ pc = "layout"
  /\ Len(tables) >= 1
  /\ \E i \in 1..Len(TextLines(extracted.text)) :
       IsolatedCandidate(TextLines(extracted.text), i)

\* C10: extraction is reached only for a request that carries a file whose
\* declared type is application/pdf and whose declared size is at most
\* 10 MiB; every other request is rejected with status 400, in both routes.
AcceptableUpload(r) ==
  /\ r.formOK
  /\ r.file.present
  /\ r.file.type = "application/pdf"
  /\ r.file.size <= MaxUpload

C10_OnlyValidUploadsExtracted ==
  /\ ExtractionOver => AcceptableUpload(req)
  /\ (pc = "done" /\ req.formOK /\ ~AcceptableUpload(req)) =>
       response.status = 400

\* C11: the overflow check runs after placement: the paragraph that pushes
\* the cursor past the budget stays, whole, as the last block of its page,
\* the cursor is reset to the top margin, and the next paragraph is the
\* first block of the next page; every block is one whole paragraph.
RECURSIVE BlocksBefore(_, _)
BlocksBefore(ss, p) == IF p <= 1 THEN 0 ELSE Len(ss[p - 1]) + BlocksBefore(ss, p - 1)

C11_OverflowCheckedAfterPlacement ==
  Len(paragraphs) > 0 =>
    /\ \A p \in 1..Len(slides) : \A k \in 1..Len(slides[p]) :
         slides[p][k].content = paragraphs[BlocksBefore(slides, p) + k]
    /\ \A p \in 1..(Len(slides) - 1) :
         /\ Len(slides[p]) >= 1
         /\ slides[p][Len(slides[p])].y + lineHeight > PageBudget
         /\ Len(slides[p + 1]) >= 1 => slides[p + 1][1].y = TopMargin
    /\ (pc = "loop" /\ slides[slide] = <<>>) => yPosition = TopMargin

C11_Witness ==
  /\ Len(slides) >= 2
  /\ Len(slides[2]) >= 1
  /\ slides[2][1].y = TopMargin
  /\ slides[2][1].content = paragraphs[Len(slides[1]) + 1]
  /\ slides[1][Len(slides[1])].y + lineHeight > PageBudget

\* C12 (as claimed): after each text block the cursor advances by
\* (sizePt / 12) * 0.5 + 0.2, that is 0.7 at the default 12 pt, so the k-th
\* block of a page is placed at top margin + 0.7 * (k - 1).
C12_AdvanceByFormatHint ==
  Len(paragraphs) > 0 =>
    \A p \in 1..Len(slides) : \A k \in 1..Len(slides[p]) :
      slides[p][k].y = TopMargin + (k - 1) * AdvanceByFormat(0)

\* C12 (amended): after each text block the cursor advances by the fixed
\* line height 0.5, whatever the block's format, so the k-th block of a page
\* is placed at top margin + 0.5 * (k - 1) and the cursor stands at top
\* margin + 0.5 * (number of blocks on the current page).
C12_AdvanceByLineHeight ==
  Len(paragraphs) > 0 =>
    /\ \A p \in 1..Len(slides) : \A k \in 1..Len(slides[p]) :
         slides[p][k].y = TopMargin + (k - 1) * lineHeight
    /\ pc = "loop" => yPosition = TopMargin + Len(slides[slide]) * lineHeight

C12_Witness ==
  /\ pc = "loop"
  /\ Len(slides) >= 1
  /\ Len(slides[1]) >= 3
  /\ slides[1][3].y = TopMargin + 2 * lineHeight
  /\ slides[1][3].y # TopMargin + 2 * AdvanceByFormat(0)

\* C13: layout neither loses, duplicates nor reorders content: the text
\* blocks read in page order, then in block order, are the paragraphs placed
\* so far, and after layout exactly the trimmed non-empty pieces of the text
\* split on the double newline, each once (the fallback notice of an empty
\* text is no paragraph).
RECURSIVE FlattenPages(_)
FlattenPages(ss) ==
  IF ss = <<>> THEN <<>> ELSE PageContents(Head(ss)) \o FlattenPages(Tail(ss))

C13_BlocksAreTheParagraphsInOrder ==
  /\ (pc = "loop" /\ Len(paragraphs) > 0) =>
       FlattenPages(slides) = SubSeq(paragraphs, 1, idx - 1)
  /\ (LayoutOver /\ Len(tables) = 0) =>
       IF Len(SplitParagraphs(extracted.text)) > 0
         THEN FlattenPages(slides) = SplitParagraphs(extracted.text)
         ELSE FlattenPages(slides) = <<FallbackNote>>

C13_Witness ==
  /\ LayoutOver
  /\ Len(paragraphs) >= 2
  /\ SplitNL(extracted.text, 2, <<>>) # paragraphs
  /\ FlattenPages(slides) = paragraphs

\* C14: every page emitted by layout holds at least one block, for every
\* number of paragraphs, zero included, and also when the last paragraph is
\* the one that pushes the cursor past the budget.
C14_NoEmptyPage ==
  LayoutOver => \A p \in 1..Len(slides) : Len(slides[p]) >= 1

----------------------------------------------------------------------------
(* The upload component: handlers and timers *)

requestVars ==
  <<req, pc, stages, extracted, thrown, paragraphs, idx, slides, slide,
    yPosition, doc, response, lineIdx, currentTable, consecutive, tables,
    tableIdx>>

IdleRequest ==
  [route |-> "docx", formOK |-> TRUE, file |-> NoFile,
   parser |-> [kind |-> "throws", text |-> <<>>], serializeOK |-> TRUE]

InitUI ==
  /\ ui = UiInit
  /\ req = IdleRequest
  /\ pc = "idle"
  /\ stages = <<>>
  /\ extracted = NoExtract
  /\ thrown = ""
  /\ paragraphs = <<>>
  /\ idx = 0
  /\ slides = <<>>
  /\ slide = 0
  /\ yPosition = 0
  /\ doc = <<>>
  /\ response = NoResponse
  /\ lineIdx = 0
  /\ currentTable = <<>>
  /\ consecutive = 0
  /\ tables = <<>>
  /\ tableIdx = 0

\* URL.createObjectURL(blob): a fresh URL for every conversion
BlobUrl(n) == "blob:" \o ToString(n)

\* setFile, setError(''), setDownloadUrl(''), setConversionProgress(0)
WithFile(u, f) ==
  [u EXCEPT !.file = f, !.error = "", !.downloadUrl = NoUrl,
            !.conversionProgress = 0]

\* e.target.files?.[0], possibly undefined
handleFileSelect ==
  /\ \E f \in SelectableFiles \cup {NoSelection} :
       ui' = IF f # NoSelection THEN WithFile(ui, f) ELSE ui
  /\ UNCHANGED requestVars

handleDrop ==
  /\ \E f \in SelectableFiles \cup {NoSelection} :
       ui' = IF f # NoSelection
               THEN [WithFile(ui, f) EXCEPT !.dragActive = FALSE]
               ELSE [ui EXCEPT !.dragActive = FALSE]
  /\ UNCHANGED requestVars

handleDragOver ==
  /\ ui' = [ui EXCEPT !.dragActive = TRUE]
  /\ UNCHANGED requestVars

handleDragLeave ==
  /\ ui' = [ui EXCEPT !.dragActive = FALSE]
  /\ UNCHANGED requestVars

\* The convert button is rendered for file && !downloadUrl and disabled
\* while converting; the handler returns at once without a file.
ConvertEnabled(u) ==
  u.file # NoSelection /\ u.downloadUrl = NoUrl /\ ~u.converting

\* handleConvert: the state updates and the first setTimeout; the progress
\* effect starts its interval because converting became true.
handleConvert ==
  /\ ConvertEnabled(ui)
  /\ ui.conversions < MaxConversions
  /\ ui' = [ui EXCEPT !.converting = TRUE, !.error = "",
                      !.conversionProgress = 0, !.timer = "first",
                      !.interval = TRUE, !.conversions = @ + 1]
  /\ UNCHANGED requestVars

\* The callback of the outer setTimeout (2000 ms).
ConvertTimeout ==
  /\ ui.timer = "first"
  /\ ui' = [ui EXCEPT !.conversionProgress = 100, !.timer = "second"]
  /\ UNCHANGED requestVars

\* The callback of the inner setTimeout (500 ms); the progress effect is
\* cleaned up because converting became false.
DownloadTimeout ==
  /\ ui.timer = "second"
  /\ ui' = [ui EXCEPT !.downloadUrl = BlobUrl(ui.conversions),
                      !.converting = FALSE, !.timer = "none",
                      !.interval = FALSE]
  /\ UNCHANGED requestVars

\* One tick of the progress interval: prev + Math.random() * 15, in whole
\* steps, or 90 and clearInterval once prev >= 90.
ProgressCap == 90
ProgressSteps == {7, 14}

ProgressTick ==
  /\ ui.interval
  /\ \E d \in ProgressSteps :
       ui' = IF ui.conversionProgress >= ProgressCap
               THEN [ui EXCEPT !.conversionProgress = ProgressCap,
                               !.interval = FALSE]
               ELSE [ui EXCEPT !.conversionProgress = @ + d]
  /\ UNCHANGED requestVars

\* Both reset buttons: one is rendered with a file, the other with a
\* download URL.
ResetEnabled(u) == u.file # NoSelection \/ u.downloadUrl # NoUrl

resetConverter ==
  /\ ResetEnabled(ui)
  /\ ui' = [ui EXCEPT !.file = NoSelection, !.downloadUrl = NoUrl,
                      !.error = "", !.conversionProgress = 0]
  /\ UNCHANGED requestVars

NextUI ==
  \/ handleFileSelect
  \/ handleDrop
  \/ handleDragOver
  \/ handleDragLeave
  \/ handleConvert
  \/ ConvertTimeout
  \/ DownloadTimeout
  \/ ProgressTick
  \/ resetConverter

SpecUI == InitUI /\ [][NextUI]_vars

\* C15: under every interleaving of the user actions with the two timers of
\* handleConvert, whenever downloadUrl is non-empty a file is selected and
\* converting is false; in particular a resetConverter issued while a
\* conversion is pending leaves downloadUrl empty.
C15_DownloadOnlyForSelectedFinished ==
  ui.downloadUrl # NoUrl => (ui.file # NoSelection /\ ~ui.converting)

====
